---- MODULE Spec2Model ----
(***************************************************************************)
(* Model of nr_openai_observability/build_events.py: the event builders,   *)
(* the rate-limit extractor, the token counters and the trace reader.      *)
(*                                                                         *)
(* Conventions.  A Python str that is sliced, concatenated, tokenized or    *)
(* parsed is a sequence of one-character strings; names that are only      *)
(* compared (model names, tag values) are TLA+ strings.  A value that may  *)
(* be None is wrapped: None is <<>> and a present value v is <<v>>.  A     *)
(* dict is a function whose domain is its set of keys; an event is such a  *)
(* dict.                                                                   *)
(***************************************************************************)
EXTENDS Integers, Sequences, FiniteSets, TLC

VARIABLES
    response_model,   \* call_vars holder: the response model (None or a model)
    conversation_id,  \* call_vars holder: the conversation id
    trace,            \* per thread: the agent's ambient span / trace / transaction
    pc,               \* per thread: "idle", "loop", "done" or "raised"
    call,             \* per thread: the builder being run and its arguments
    cid,              \* per thread: build_messages_events' local completion_id
    idx,              \* per thread: build_messages_events' loop index
    events,           \* per thread: the events built so far / returned
    exc               \* per thread: the exception raised, "" when none

vars == <<response_model, conversation_id, trace, pc, call, cid, idx, events,
          exc>>

----------------------------------------------------------------------------
(* Bounds of the model *)

MaxMsgs == 2        \* longest message list passed to a builder
MaxStartSeq == 1    \* largest start_seq_num

(* The truncation length of every [:4095] slice *)
TruncLimit == 4095

Threads == {1, 2}

----------------------------------------------------------------------------
(* Python values *)

None == <<>>
Some(v) == <<v>>

\* d.get(k)
Get(d, k) == IF k \in DOMAIN d THEN Some(d[k]) ELSE None

\* d.get(k, default)
GetOr(d, k, default) == IF k \in DOMAIN d THEN d[k] ELSE default

\* (o or ""), o an optional str
OrEmpty(o) == IF o = None THEN <<>> ELSE o[1]

\* s[:4095]
Trunc(s) == IF Len(s) > TruncLimit THEN SubSeq(s, 1, TruncLimit) ELSE s

\* s[-4:]
LastFour(s) == IF Len(s) > 4 THEN SubSeq(s, Len(s) - 3, Len(s)) ELSE s

\* d.update(u) / {**d, **u}
DictUpdate(d, u) ==
    [k \in DOMAIN d \cup DOMAIN u |-> IF k \in DOMAIN u THEN u[k] ELSE d[k]]

\* str(n) for n >= 0
DigitChars == <<"0", "1", "2", "3", "4", "5", "6", "7", "8", "9">>

RECURSIVE Digits(_)
Digits(n) ==
    IF n < 10 THEN <<DigitChars[n + 1]>>
    ELSE Digits(n \div 10) \o <<DigitChars[(n % 10) + 1]>>

\* a string of n characters
Rep(n) == [i \in 1..n |-> "x"]

\* str(uuid.uuid4()), n naming the random value
Uuid(n) == <<"u", "u", "i", "d", "4", ":">> \o Digits(n)

----------------------------------------------------------------------------
(* get_trace_details *)

get_trace_details(tr) ==
    LET span_id == tr.span_id
        trace_id == tr.trace_id
        transaction_id ==
            IF tr.transaction # None THEN Some(tr.transaction[1].guid) ELSE None
    IN  ("span_id" :> span_id) @@ ("trace_id" :> trace_id)
        @@ ("trace.id" :> trace_id) @@ ("transaction_id" :> transaction_id)
        @@ ("transactionId" :> transaction_id)

----------------------------------------------------------------------------
(* build_messages_events *)

\* the local message_id of one loop iteration
MessageId(a, index, fresh) ==
    IF a.message_id_override # None THEN a.message_id_override[1]
    ELSE IF a.response_id # None
         THEN a.response_id[1] \o <<"-">> \o Digits(index)
         ELSE fresh

\* currMessage with the sequence number not offset by start_seq_num
CurrMessage_NoOffset(message, index, a, completion_id, uid, model, tr) ==
    DictUpdate(
        ("id" :> uid)
        @@ ("completion_id" :> completion_id)
        @@ ("content" :> Trunc(OrEmpty(Get(message, "content"))))
        @@ ("role" :> Get(message, "role"))
        @@ ("sequence" :> index)
        @@ ("model" :> model)
        @@ ("vendor" :> "openAI")
        @@ ("ingest_source" :> "PythonSDK")
        @@ get_trace_details(tr),
        a.tags)

\* currMessage of one loop iteration, after currMessage.update(tags)
CurrMessage(message, index, a, completion_id, uid, model, tr) ==
    DictUpdate(
        ("id" :> uid)
        @@ ("completion_id" :> completion_id)
        @@ ("content" :> Trunc(OrEmpty(Get(message, "content"))))
        @@ ("role" :> Get(message, "role"))
        @@ ("sequence" :> index + a.start_seq_num)
        @@ ("model" :> model)
        @@ ("vendor" :> "openAI")
        @@ ("ingest_source" :> "PythonSDK")
        @@ get_trace_details(tr),
        a.tags)

----------------------------------------------------------------------------
(* _get_rate_limit_data *)

\* characters of a header value.  "U+0663" (ARABIC-INDIC DIGIT THREE) is a
\* decimal digit; "U+00B2" (SUPERSCRIPT TWO) is a digit but not a decimal.
AsciiDigits == {DigitChars[i] : i \in 1..10}

\* c.isdigit() for one character
IsDigitChar(c) == c \in AsciiDigits \cup {"U+0663", "U+00B2"}

\* whether int() accepts the character
IsDecimalChar(c) == c \in AsciiDigits \cup {"U+0663"}

DecimalValue(c) ==
    IF c = "U+0663" THEN 3 ELSE CHOOSE d \in 0..9 : DigitChars[d + 1] = c

\* header.isdigit(): every character is a digit and there is at least one
IsDigit(header) ==
    Len(header) > 0 /\ \A i \in 1..Len(header) : IsDigitChar(header[i])

\* whether int(header) raises ValueError, for a header that passed isdigit()
IntRaises(header) == \E i \in 1..Len(header) : ~IsDecimalChar(header[i])

\* int(header)
RECURSIVE ToInt(_)
ToInt(header) ==
    IF Len(header) = 0 THEN 0
    ELSE 10 * ToInt(SubSeq(header, 1, Len(header) - 1))
         + DecimalValue(header[Len(header)])

\* the guard of _get_numeric_header: header and header.isdigit()
NumericGuard(header) == header # None /\ Len(header[1]) > 0 /\ IsDigit(header[1])

\* _get_numeric_header(name), when it returns
_get_numeric_header(response_headers, name) ==
    LET header == Get(response_headers, name)
    IN  IF NumericGuard(header) THEN Some(ToInt(header[1])) ELSE None

\* whether _get_numeric_header(name) raises
NumericHeaderRaises(response_headers, name) ==
    LET header == Get(response_headers, name)
    IN  NumericGuard(header) /\ IntRaises(header[1])

NumericNames ==
    {"ratelimit_limit_requests", "ratelimit_limit_tokens",
     "ratelimit_remaining_tokens", "ratelimit_remaining_requests"}

\* whether _get_rate_limit_data raises
RateLimitRaises(response_headers) ==
    \E name \in NumericNames : NumericHeaderRaises(response_headers, name)

\* the dict _get_rate_limit_data returns
_get_rate_limit_data(response_headers) ==
    ("ratelimit_limit_requests" :>
        _get_numeric_header(response_headers, "ratelimit_limit_requests"))
    @@ ("ratelimit_limit_tokens" :>
        _get_numeric_header(response_headers, "ratelimit_limit_tokens"))
    @@ ("ratelimit_reset_tokens" :>
        Get(response_headers, "x-ratelimit-reset-tokens"))
    @@ ("ratelimit_reset_requests" :>
        Get(response_headers, "x-ratelimit-reset-requests"))
    @@ ("ratelimit_remaining_tokens" :>
        _get_numeric_header(response_headers, "ratelimit_remaining_tokens"))
    @@ ("ratelimit_remaining_requests" :>
        _get_numeric_header(response_headers, "ratelimit_remaining_requests"))

----------------------------------------------------------------------------
(* calc_completion_tokens, calc_prompt_tokens *)

\* the characters of a model name
ModelChars(model) ==
    CASE model = "gpt-4" -> <<"g", "p", "t", "-", "4">>
      [] model = "gpt-3.5-turbo-0301" ->
            <<"g", "p", "t", "-", "3", ".", "5", "-", "t", "u", "r", "b", "o",
              "-", "0", "3", "0", "1">>
      [] model = "davinci" -> <<"d", "a", "v", "i", "n", "c", "i">>
      [] model = "llama-2" -> <<"l", "l", "a", "m", "a", "-", "2">>

\* sub in s
Contains(sub, s) ==
    \E i \in 0..(Len(s) - Len(sub)) : SubSeq(s, i + 1, i + Len(sub)) = sub

\* tiktoken.encoding_for_model(model) finds an encoding (no KeyError)
HasEncoding(model) == model \in {"gpt-4", "gpt-3.5-turbo-0301", "davinci"}

\* len(encoding.encode(value)): the tokenizer is the tiktoken library's; here a
\* token is a run of up to four characters
TokenLen(value) == (Len(value) + 3) \div 4

calc_completion_tokens(model, message_content) ==
    IF ~HasEncoding(model) THEN None ELSE Some(TokenLen(message_content))

\* the tokens one message adds, keys being those of its items() still to visit
RECURSIVE MessageTokens(_, _, _)
MessageTokens(message, keys, num_of_tokens_per_name) ==
    IF keys = {} THEN 0
    ELSE LET key == CHOOSE k \in keys : TRUE
         IN  TokenLen(message[key])
             + (IF key = "name" THEN num_of_tokens_per_name ELSE 0)
             + MessageTokens(message, keys \ {key}, num_of_tokens_per_name)

\* the tokens messages[i..] add
RECURSIVE PromptLoop(_, _, _, _)
PromptLoop(messages, i, num_of_tokens_per_msg, num_of_tokens_per_name) ==
    IF i > Len(messages) THEN 0
    ELSE num_of_tokens_per_msg
         + MessageTokens(messages[i], DOMAIN messages[i], num_of_tokens_per_name)
         + PromptLoop(messages, i + 1, num_of_tokens_per_msg,
                      num_of_tokens_per_name)

\* calc_prompt_tokens without the branch for the legacy model
calc_prompt_tokens_no_legacy(model, messages) ==
    IF ~HasEncoding(model) THEN None
    ELSE IF ~Contains(ModelChars("gpt-4"), ModelChars(model))
            /\ ~Contains(<<"g", "p", "t", "-", "3">>, ModelChars(model))
         THEN None
         ELSE Some(3 + PromptLoop(messages, 1, 3, 1))

calc_prompt_tokens(model, messages) ==
    IF ~HasEncoding(model) THEN None
    ELSE LET legacy == model = "gpt-3.5-turbo-0301"
             num_of_tokens_per_msg == IF legacy THEN 4 ELSE 3
             num_of_tokens_per_name == IF legacy THEN -1 ELSE 1
         IN  IF ~Contains(ModelChars("gpt-4"), ModelChars(model))
                /\ ~Contains(<<"g", "p", "t", "-", "3">>, ModelChars(model))
             THEN None
             ELSE Some(3 + PromptLoop(messages, 1, num_of_tokens_per_msg,
                                      num_of_tokens_per_name))

----------------------------------------------------------------------------
(* The summary, error, embedding and feedback builders.  response_time is   *)
(* in microseconds, so that int(response_time * 1000) is exact.  conv is    *)
(* get_conversation_id(), tr the ambient trace state, uid a fresh uuid4     *)
(* and now is datetime.now().                                               *)

\* request.get("model") or request.get("engine")
RequestModel(request) ==
    LET model == Get(request, "model")
    IN  IF model # None /\ model[1] # "" THEN model ELSE Get(request, "engine")

\* f"sk-{api_key[-4:]}"
ApiKeyLastFour(api_key) == <<"s", "k", "-">> \o LastFour(api_key)

\* int(response_time * 1000)
Millis(response_time) == response_time \div 1000

\* completion_tokens + prompt_tokens if completion_tokens and prompt_tokens
\* else None
TotalTokens(completion_tokens, prompt_tokens) ==
    IF (completion_tokens # None /\ completion_tokens[1] # 0)
       /\ (prompt_tokens # None /\ prompt_tokens[1] # 0)
    THEN Some(completion_tokens[1] + prompt_tokens[1])
    ELSE None

build_stream_completion_events(last_chunk, request, response_headers, message, response_time, completion_id, conv, tr) ==
    LET request_messages == GetOr(request, "messages", <<>>)
        prompt_tokens == calc_prompt_tokens(last_chunk.model, request_messages)
        completion_tokens ==
            calc_completion_tokens(last_chunk.model, GetOr(message, "content", <<>>))
        total_tokens == TotalTokens(completion_tokens, prompt_tokens)
    IN  DictUpdate(
            ("id" :> completion_id)
            @@ ("conversation_id" :> conv)
            @@ ("api_key_last_four_digits" :> ApiKeyLastFour(last_chunk.api_key))
            @@ ("response_time" :> Millis(response_time))
            @@ ("request.model" :> RequestModel(request))
            @@ ("response.model" :> last_chunk.model)
            @@ ("usage.completion_tokens" :> completion_tokens)
            @@ ("usage.total_tokens" :> total_tokens)
            @@ ("usage.prompt_tokens" :> prompt_tokens)
            @@ ("temperature" :> Get(request, "temperature"))
            @@ ("max_tokens" :> Get(request, "max_tokens"))
            @@ ("finish_reason" :> last_chunk.choices[1].finish_reason)
            @@ ("api_type" :> last_chunk.api_type)
            @@ ("vendor" :> "openAI")
            @@ ("ingest_source" :> "PythonSDK")
            @@ ("number_of_messages" :> Len(GetOr(request, "messages", <<>>)) + 1)
            @@ ("organization" :> last_chunk.organization)
            @@ ("api_version" :> Get(response_headers, "openai-version"))
            @@ ("response" :> Trunc(OrEmpty(Get(message, "content"))))
            @@ ("stream" :> TRUE)
            @@ get_trace_details(tr),
            _get_rate_limit_data(response_headers))

build_completion_summary(response, request, response_headers, response_time, final_message, completion_id, conv, tr) ==
    DictUpdate(
        ("id" :> completion_id)
        @@ ("conversation_id" :> conv)
        @@ ("api_key_last_four_digits" :> ApiKeyLastFour(response.api_key))
        @@ ("response_time" :> Millis(response_time))
        @@ ("request.model" :> RequestModel(request))
        @@ ("response.model" :> response.model)
        @@ ("response.id" :> response.id)
        @@ ("usage.completion_tokens" :> response.usage.completion_tokens)
        @@ ("usage.total_tokens" :> response.usage.total_tokens)
        @@ ("usage.prompt_tokens" :> response.usage.prompt_tokens)
        @@ ("temperature" :> Get(request, "temperature"))
        @@ ("max_tokens" :> Get(request, "max_tokens"))
        @@ ("finish_reason" :> response.choices[1].finish_reason)
        @@ ("api_type" :> response.api_type)
        @@ ("vendor" :> "openAI")
        @@ ("ingest_source" :> "PythonSDK")
        @@ ("number_of_messages" :>
                Len(GetOr(request, "messages", <<>>)) + Len(response.choices))
        @@ ("organization" :> response.organization)
        @@ ("api_version" :> Get(response_headers, "openai-version"))
        @@ ("response" :> Trunc(OrEmpty(Get(final_message, "content"))))
        @@ ("stream" :> FALSE)
        @@ get_trace_details(tr),
        _get_rate_limit_data(response_headers))

build_completion_summary_for_error(request, error, completion_id, isStream, openai_api_key, tr) ==
    ("id" :> completion_id)
    @@ ("api_key_last_four_digits" :> ApiKeyLastFour(openai_api_key))
    @@ ("request.model" :> RequestModel(request))
    @@ ("temperature" :> Get(request, "temperature"))
    @@ ("max_tokens" :> Get(request, "max_tokens"))
    @@ ("vendor" :> "openAI")
    @@ ("ingest_source" :> "PythonSDK")
    @@ ("organization" :> error.organization)
    @@ ("number_of_messages" :> Len(GetOr(request, "messages", <<>>)))
    @@ ("error_status" :> error.http_status)
    @@ ("error_message" :> error.error.message)
    @@ ("error_type" :> error.error.type)
    @@ ("error_code" :> error.error.code)
    @@ ("error_param" :> error.error.param)
    @@ ("stream" :> isStream)
    @@ get_trace_details(tr)

\* whether build_embedding_event raises: None[:4095], or the rate-limit int()
EmbeddingRaises(request, response_headers) ==
    Get(request, "input") = None \/ RateLimitRaises(response_headers)

build_embedding_event(response, request, response_headers, response_time, uid, now, tr) ==
    DictUpdate(
        ("id" :> uid)
        @@ ("input" :> Trunc(Get(request, "input")[1]))
        @@ ("api_key_last_four_digits" :> ApiKeyLastFour(response.api_key))
        @@ ("timestamp" :> now)
        @@ ("response_time" :> Millis(response_time))
        @@ ("request.model" :> RequestModel(request))
        @@ ("response.model" :> response.model)
        @@ ("usage.total_tokens" :> response.usage.total_tokens)
        @@ ("usage.prompt_tokens" :> response.usage.prompt_tokens)
        @@ ("api_type" :> response.api_type)
        @@ ("vendor" :> "openAI")
        @@ ("ingest_source" :> "PythonSDK")
        @@ ("organization" :> response.organization)
        @@ ("api_version" :> Get(response_headers, "openai-version"))
        @@ get_trace_details(tr),
        _get_rate_limit_data(response_headers))

build_embedding_error_event(request, error, openai_api_key, uid, now, tr) ==
    ("id" :> uid)
    @@ ("api_key_last_four_digits" :> ApiKeyLastFour(openai_api_key))
    @@ ("timestamp" :> now)
    @@ ("request.model" :> RequestModel(request))
    @@ ("vendor" :> "openAI")
    @@ ("ingest_source" :> "PythonSDK")
    @@ ("organization" :> error.organization)
    @@ ("error_status" :> error.http_status)
    @@ ("error_message" :> error.error.message)
    @@ ("error_type" :> error.error.type)
    @@ ("error_code" :> error.error.code)
    @@ ("error_param" :> error.error.param)
    @@ get_trace_details(tr)

build_ai_feedback_event(category, rating, message_id, conv_id, request_id, message, uid, now) ==
    ("id" :> uid)
    @@ ("conversation_id" :> conv_id)
    @@ ("message_id" :> message_id)
    @@ ("request_id" :> request_id)
    @@ ("rating" :> rating)
    @@ ("message" :> message)
    @@ ("category" :> category)
    @@ ("ingest_source" :> "PythonSDK")
    @@ ("timestamp" :> now)

----------------------------------------------------------------------------
(* Inputs *)

Texts == {<<>>, Rep(2), Rep(TruncLimit), Rep(TruncLimit + 1)}

UserRole == <<"u", "s", "e", "r">>
AssistantRole == <<"a", "s", "s", "i", "s", "t", "a", "n", "t">>

Msg(role, content) == ("role" :> role) @@ ("content" :> content)

ShortMsg == Msg(UserRole, Rep(2))
LongMsg == Msg(AssistantRole, Rep(TruncLimit + 1))
NamedMsg == Msg(UserRole, Rep(5)) @@ ("name" :> <<"b", "o", "b">>)
BareMsg == ("role" :> UserRole)

\* the sequences over S of length at most n
RECURSIVE SeqsUpTo(_, _)
SeqsUpTo(S, n) ==
    IF n = 0 THEN {<<>>}
    ELSE LET shorter == SeqsUpTo(S, n - 1)
         IN  shorter \cup {Append(q, x) : q \in {r \in shorter : Len(r) = n - 1},
                                          x \in S}

\* n messages, alternately with and without content
Alternating(n) == [i \in 1..n |-> IF i % 2 = 1 THEN ShortMsg ELSE BareMsg]

MessageLists ==
    {Alternating(n) : n \in 0..MaxMsgs} \cup {<<LongMsg>>, <<BareMsg, ShortMsg>>}

SpanA == <<"s", "p", "a", "n", "-", "A">>
Cmpl1 == <<"c", "m", "p", "l", "-", "1">>
CompletionIds == {SpanA, Cmpl1}

NoTrace == [span_id |-> None, trace_id |-> None, transaction |-> None]
ActiveTrace ==
    [span_id |-> Some(SpanA), trace_id |-> Some("trace-1"),
     transaction |-> Some([guid |-> "txn-1"])]
TraceStates == {NoTrace, ActiveTrace}

MessageModels == {None, Some("gpt-4")}
ConcModels == {None, Some("gpt-4"), Some("davinci")}
Overrides == {None, Some(<<"r", "u", "n", "-", "1">>)}
ResponseIds == {None, Some(<<"c", "h", "a", "t", "-", "7">>)}

NoTags == <<>>
TagMaps ==
    {NoTags, "vendor" :> "acme", "sequence" :> 99,
     "completion_id" :> Some(<<"t", "a", "g">>)}

MessagesArgs ==
    [fn : {"build_messages_events"}, messages : MessageLists,
     model : MessageModels, completion_id : CompletionIds,
     message_id_override : Overrides, response_id : ResponseIds,
     tags : TagMaps, start_seq_num : 0..MaxStartSeq]

\* the calls of the two-thread specification
ConcArgs ==
    [fn : {"build_messages_events"},
     messages : SeqsUpTo({ShortMsg}, MaxMsgs) \ {<<>>},
     model : ConcModels, completion_id : {Cmpl1},
     message_id_override : {None}, response_id : {None},
     tags : {NoTags}, start_seq_num : {0}]

Models == {"gpt-4", "gpt-3.5-turbo-0301", "davinci", "llama-2"}

Prompts ==
    {<<ShortMsg>>, <<LongMsg>>, <<NamedMsg>>, <<BareMsg>>, <<ShortMsg, NamedMsg>>}

\* chat requests
Requests ==
    {("model" :> "gpt-4") @@ ("messages" :> <<ShortMsg>>)
        @@ ("temperature" :> 7) @@ ("max_tokens" :> 16),
     ("engine" :> "davinci") @@ ("messages" :> <<ShortMsg, NamedMsg>>),
     ("model" :> "") @@ ("engine" :> "gpt-4") @@ ("messages" :> <<BareMsg>>),
     ("model" :> "gpt-3.5-turbo-0301") @@ ("messages" :> <<>>),
     "model" :> "gpt-4"}

\* embedding requests
EmbeddingRequests ==
    {("model" :> "text-embedding-ada-002") @@ ("input" :> x) : x \in Texts}
    \cup {"engine" :> "text-embedding-ada-002"}

LongKey == <<"s", "k", "-", "a", "b", "c", "d", "e", "f">>
ShortKey == <<"a", "b", "c">>

Choice == [finish_reason |-> "stop"]

LastChunks ==
    {[model |-> m, api_key |-> LongKey, choices |-> <<Choice>>,
      api_type |-> "open_ai", organization |-> "org-1"] : m \in Models}
    \cup {[model |-> "gpt-4", api_key |-> ShortKey, choices |-> <<Choice>>,
           api_type |-> "azure", organization |-> "org-2"]}

Usage(p, c) ==
    [prompt_tokens |-> p, completion_tokens |-> c, total_tokens |-> p + c]

Responses ==
    {[model |-> "gpt-4", id |-> "chatcmpl-7", usage |-> Usage(9, 3),
      api_key |-> LongKey, choices |-> <<Choice>>, api_type |-> "open_ai",
      organization |-> "org-1"],
     [model |-> "davinci", id |-> "cmpl-8", usage |-> Usage(2, 0),
      api_key |-> ShortKey, choices |-> <<Choice, Choice>>, api_type |-> "azure",
      organization |-> "org-2"]}

FinalMessages ==
    {Msg(AssistantRole, t) : t \in {<<>>, Rep(2), Rep(TruncLimit + 1)}}
    \cup {"role" :> AssistantRole}

ResponseTimes == {1500999}

HeaderValues ==
    {<<>>, <<"0">>, <<"1", "0", "0">>, <<"1", "a">>, <<"U+0663">>, <<"U+00B2">>,
     <<"4", "U+00B2">>}

NoHeaders == <<>>
FullHeaders ==
    ("ratelimit_limit_requests" :> <<"2", "0", "0">>)
    @@ ("ratelimit_limit_tokens" :> <<"4", "0", "0", "0", "0">>)
    @@ ("ratelimit_remaining_tokens" :> <<"3", "9", "9">>)
    @@ ("ratelimit_remaining_requests" :> <<"0">>)
    @@ ("x-ratelimit-reset-tokens" :> <<"6", "m", "s">>)
    @@ ("x-ratelimit-reset-requests" :> <<"1", "s">>)
    @@ ("openai-version" :> <<"2", "0", "2", "0">>)
\* the names the provider sends, which _get_numeric_header does not read
ProviderHeaders ==
    ("x-ratelimit-limit-requests" :> <<"2", "0", "0">>)
    @@ ("x-ratelimit-reset-tokens" :> <<"6", "m", "s">>)

HeaderMaps ==
    {NoHeaders, FullHeaders, ProviderHeaders}
    \cup {DictUpdate(base, name :> v) :
            base \in {NoHeaders, FullHeaders}, name \in NumericNames,
            v \in HeaderValues}

BuilderHeaders ==
    {NoHeaders, FullHeaders,
     DictUpdate(FullHeaders, "ratelimit_limit_tokens" :> <<"U+00B2">>)}

ErrorBody(message) ==
    [message |-> message, type |-> "rate_limit_error", code |-> None,
     param |-> None]

Errors ==
    {[organization |-> "org-1", http_status |-> 429, error |-> ErrorBody(t)] :
        t \in {Rep(2), Rep(TruncLimit + 1)}}

ConversationIds == {"conv-1"}
Times == {1700000000}
Ratings == {1, 5}

----------------------------------------------------------------------------
(* State *)

IdleCall == [fn |-> "idle"]

Init ==
    /\ response_model = None
    /\ conversation_id = None
    /\ trace = [t \in Threads |-> NoTrace]
    /\ pc = [t \in Threads |-> "idle"]
    /\ call = [t \in Threads |-> IdleCall]
    /\ cid = [t \in Threads |-> None]
    /\ idx = [t \in Threads |-> 0]
    /\ events = [t \in Threads |-> <<>>]
    /\ exc = [t \in Threads |-> ""]

\* the builders whose events carry a uuid4 as id
UuidBuilders ==
    {"build_messages_events", "build_embedding_event",
     "build_embedding_error_event", "build_ai_feedback_event"}

\* the uuid4 values the threads hold
LiveUuids ==
    UNION {{events[t][i]["id"] : i \in 1..Len(events[t])} :
              t \in {u \in Threads : call[u].fn \in UuidBuilders}}

\* uuid.uuid4() is unique: the k-th new value (k = 1, 2) differs from every
\* value held and from the other new value
FreshUuid(k) ==
    LET unused == {n \in 0..(Cardinality(LiveUuids) + 1) : Uuid(n) \notin LiveUuids}
        first == CHOOSE n \in unused : \A m \in unused : n <= m
        second == CHOOSE n \in unused \ {first} :
                      \A m \in unused \ {first} : n <= m
    IN  Uuid(IF k = 1 THEN first ELSE second)

\* thread t's builder returns value(s) evs
Returns(t, c, evs) ==
    /\ pc' = [pc EXCEPT ![t] = "done"]
    /\ call' = [call EXCEPT ![t] = c]
    /\ events' = [events EXCEPT ![t] = evs]
    /\ UNCHANGED <<response_model, conversation_id, trace, cid, idx, exc>>

\* thread t's builder raises e
Raises(t, c, e) ==
    /\ pc' = [pc EXCEPT ![t] = "raised"]
    /\ call' = [call EXCEPT ![t] = c]
    /\ exc' = [exc EXCEPT ![t] = e]
    /\ UNCHANGED <<response_model, conversation_id, trace, cid, idx, events>>

----------------------------------------------------------------------------
(* The callers and the tracing agent *)

\* the calling interceptor sets the conversation id of the holder
SetConversationId(c) ==
    /\ conversation_id # Some(c)
    /\ conversation_id' = Some(c)
    /\ UNCHANGED <<response_model, trace, pc, call, cid, idx, events, exc>>

\* the agent enters or leaves a span on thread t, between builder calls
SetTrace(t, tr) ==
    /\ pc[t] = "idle"
    /\ trace[t] # tr
    /\ trace' = [trace EXCEPT ![t] = tr]
    /\ UNCHANGED <<response_model, conversation_id, pc, call, cid, idx, events,
                   exc>>

\* the caller takes the result (or the exception) of thread t's builder
Return(t) ==
    /\ pc[t] \in {"done", "raised"}
    /\ pc' = [pc EXCEPT ![t] = "idle"]
    /\ call' = [call EXCEPT ![t] = IdleCall]
    /\ cid' = [cid EXCEPT ![t] = None]
    /\ idx' = [idx EXCEPT ![t] = 0]
    /\ events' = [events EXCEPT ![t] = <<>>]
    /\ exc' = [exc EXCEPT ![t] = ""]
    /\ UNCHANGED <<response_model, conversation_id, trace>>

----------------------------------------------------------------------------
(* build_messages_events, one step per statement that touches the holder *)

\* set_response_model(model)
set_response_model(model) == response_model' = model

\* build_messages_events keeping the completion_id it is passed
CallBuildMessagesEvents_KeepArg(t, a) ==
    /\ pc[t] = "idle"
    /\ pc' = [pc EXCEPT ![t] = "loop"]
    /\ call' = [call EXCEPT ![t] = a]
    /\ cid' = [cid EXCEPT ![t] = Some(a.completion_id)]
    /\ IF a.model # None THEN set_response_model(a.model)
                         ELSE UNCHANGED response_model
    /\ idx' = [idx EXCEPT ![t] = 0]
    /\ events' = [events EXCEPT ![t] = <<>>]
    /\ UNCHANGED <<conversation_id, trace, exc>>

\* lines 18-24: the span id replaces completion_id, the model is stored
CallBuildMessagesEvents(t, a) ==
    /\ pc[t] = "idle"
    /\ pc' = [pc EXCEPT ![t] = "loop"]
    /\ call' = [call EXCEPT ![t] = a]
    /\ cid' = [cid EXCEPT ![t] = trace[t].span_id]
    /\ IF a.model # None THEN set_response_model(a.model)
                         ELSE UNCHANGED response_model
    /\ idx' = [idx EXCEPT ![t] = 0]
    /\ events' = [events EXCEPT ![t] = <<>>]
    /\ UNCHANGED <<conversation_id, trace, exc>>

\* lines 25-47: one iteration of the loop
LoopStep(t) ==
    /\ pc[t] = "loop"
    /\ idx[t] < Len(call[t].messages)
    /\ LET a == call[t]
           index == idx[t]
           message == a.messages[index + 1]
           message_id == MessageId(a, index, FreshUuid(1))
           currMessage ==
               CurrMessage(message, index, a, cid[t], FreshUuid(2),
                           response_model, trace[t])
       IN  events' = [events EXCEPT ![t] = Append(@, currMessage)]
    /\ idx' = [idx EXCEPT ![t] = @ + 1]
    /\ UNCHANGED <<response_model, conversation_id, trace, pc, call, cid, exc>>

\* line 48: return events
LoopEnd(t) ==
    /\ pc[t] = "loop"
    /\ idx[t] = Len(call[t].messages)
    /\ pc' = [pc EXCEPT ![t] = "done"]
    /\ UNCHANGED <<response_model, conversation_id, trace, call, cid, idx,
                   events, exc>>

----------------------------------------------------------------------------
(* The other builders and helpers: each reads the holder at most once *)

CallGetRateLimitData(t, response_headers) ==
    /\ pc[t] = "idle"
    /\ LET c == [fn |-> "_get_rate_limit_data",
                 response_headers |-> response_headers]
       IN  IF RateLimitRaises(response_headers)
           THEN Raises(t, c, "ValueError")
           ELSE Returns(t, c, <<_get_rate_limit_data(response_headers)>>)

CallCalcPromptTokens(t, model, messages) ==
    /\ pc[t] = "idle"
    /\ Returns(t, [fn |-> "calc_prompt_tokens", model |-> model,
                   messages |-> messages],
               <<calc_prompt_tokens(model, messages)>>)

CallCalcCompletionTokens(t, model, message_content) ==
    /\ pc[t] = "idle"
    /\ Returns(t, [fn |-> "calc_completion_tokens", model |-> model,
                   message_content |-> message_content],
               <<calc_completion_tokens(model, message_content)>>)

CallBuildStreamCompletionEvents(t, last_chunk, request, response_headers, message, response_time, completion_id) ==
    /\ pc[t] = "idle"
    /\ LET c == [fn |-> "build_stream_completion_events",
                 last_chunk |-> last_chunk, request |-> request,
                 response_headers |-> response_headers, message |-> message,
                 response_time |-> response_time,
                 completion_id |-> completion_id]
       IN  IF RateLimitRaises(response_headers)
           THEN Raises(t, c, "ValueError")
           ELSE Returns(t, c,
                    <<build_stream_completion_events(last_chunk, request,
                          response_headers, message, response_time,
                          completion_id, conversation_id, trace[t])>>)

CallBuildCompletionSummary(t, response, request, response_headers, response_time, final_message, completion_id) ==
    /\ pc[t] = "idle"
    /\ LET c == [fn |-> "build_completion_summary", response |-> response,
                 request |-> request, response_headers |-> response_headers,
                 response_time |-> response_time,
                 final_message |-> final_message,
                 completion_id |-> completion_id]
       IN  IF RateLimitRaises(response_headers)
           THEN Raises(t, c, "ValueError")
           ELSE Returns(t, c,
                    <<build_completion_summary(response, request,
                          response_headers, response_time, final_message,
                          completion_id, conversation_id, trace[t])>>)

CallBuildCompletionSummaryForError(t, request, error, completion_id, isStream, openai_api_key) ==
    /\ pc[t] = "idle"
    /\ Returns(t, [fn |-> "build_completion_summary_for_error",
                   request |-> request, error |-> error,
                   completion_id |-> completion_id, isStream |-> isStream],
               <<build_completion_summary_for_error(request, error, completion_id,
                     isStream, openai_api_key, trace[t])>>)

CallBuildEmbeddingEvent(t, response, request, response_headers, response_time, now) ==
    /\ pc[t] = "idle"
    /\ LET c == [fn |-> "build_embedding_event", response |-> response,
                 request |-> request, response_headers |-> response_headers,
                 response_time |-> response_time]
       IN  IF Get(request, "input") = None
           THEN Raises(t, c, "TypeError")
           ELSE IF RateLimitRaises(response_headers)
           THEN Raises(t, c, "ValueError")
           ELSE Returns(t, c,
                    <<build_embedding_event(response, request, response_headers,
                          response_time, FreshUuid(1), now, trace[t])>>)

CallBuildEmbeddingErrorEvent(t, request, error, openai_api_key, now) ==
    /\ pc[t] = "idle"
    /\ Returns(t, [fn |-> "build_embedding_error_event", request |-> request,
                   error |-> error],
               <<build_embedding_error_event(request, error, openai_api_key,
                     FreshUuid(1), now, trace[t])>>)

CallBuildAiFeedbackEvent(t, category, rating, message_id, conv_id, request_id, message, now) ==
    /\ pc[t] = "idle"
    /\ Returns(t, [fn |-> "build_ai_feedback_event", category |-> category,
                   rating |-> rating, message_id |-> message_id,
                   conversation_id |-> conv_id, request_id |-> request_id,
                   message |-> message],
               <<build_ai_feedback_event(category, rating, message_id, conv_id,
                     request_id, message, FreshUuid(1), now)>>)

----------------------------------------------------------------------------
(* Specifications *)

\* the builders called from one thread
NextOf(Main) ==
    \/ \E c \in ConversationIds : SetConversationId(c)
    \/ \E tr \in TraceStates : SetTrace(Main, tr)
    \/ Return(Main)
    \/ \E a \in MessagesArgs : CallBuildMessagesEvents(Main, a)
    \/ LoopStep(Main)
    \/ LoopEnd(Main)
    \/ \E h \in HeaderMaps : CallGetRateLimitData(Main, h)
    \/ \E m \in Models, p \in Prompts : CallCalcPromptTokens(Main, m, p)
    \/ \E m \in Models, x \in Texts : CallCalcCompletionTokens(Main, m, x)
    \/ \E lc \in LastChunks, rq \in Requests, h \in BuilderHeaders,
          m \in FinalMessages, rt \in ResponseTimes, c \in CompletionIds :
            CallBuildStreamCompletionEvents(Main, lc, rq, h, m, rt, c)
    \/ \E rs \in Responses, rq \in Requests, h \in BuilderHeaders,
          rt \in ResponseTimes, m \in FinalMessages, c \in CompletionIds :
            CallBuildCompletionSummary(Main, rs, rq, h, rt, m, c)
    \/ \E rq \in Requests, e \in Errors, c \in CompletionIds,
          st \in BOOLEAN, k \in {LongKey, ShortKey} :
            CallBuildCompletionSummaryForError(Main, rq, e, c, st, k)
    \/ \E rs \in Responses, rq \in EmbeddingRequests, h \in BuilderHeaders,
          rt \in ResponseTimes, now \in Times :
            CallBuildEmbeddingEvent(Main, rs, rq, h, rt, now)
    \/ \E rq \in EmbeddingRequests, e \in Errors, k \in {LongKey, ShortKey},
          now \in Times :
            CallBuildEmbeddingErrorEvent(Main, rq, e, k, now)
    \/ \E r \in Ratings, m \in Texts, now \in Times :
            CallBuildAiFeedbackEvent(Main, "accuracy", r, <<"r", "u", "n", "-", "1">>,
                                     "conv-1", "req-1", m, now)

Callers == {1}

Next == \E t \in Callers : NextOf(t)

Spec == Init /\ [][Next]_vars

\* build_messages_events called from two threads at once
NextConc ==
    \E t \in Threads :
        \/ \E a \in ConcArgs : CallBuildMessagesEvents(t, a)
        \/ LoopStep(t)
        \/ LoopEnd(t)
        \/ Return(t)

SpecConc == Init /\ [][NextConc]_vars

----------------------------------------------------------------------------
(* Properties *)

Returned(t, fn) == pc[t] = "done" /\ call[t].fn = fn

EventBuilders ==
    {"build_messages_events", "build_stream_completion_events",
     "build_completion_summary", "build_completion_summary_for_error",
     "build_embedding_event", "build_embedding_error_event",
     "build_ai_feedback_event"}

\* field is src cut to its first 4095 characters, and src itself when src is
\* no longer than that
IsTruncationOf(field, src) ==
    /\ Len(field) = (IF Len(src) > TruncLimit THEN TruncLimit ELSE Len(src))
    /\ field = SubSeq(src, 1, Len(field))

\* C1: every event returned by every builder, whatever the tags, has vendor
\* "openAI" and ingest_source "PythonSDK".
C1_VendorAndIngestSource ==
    \A t \in Threads :
        (pc[t] = "done" /\ call[t].fn \in EventBuilders) =>
            \A i \in 1..Len(events[t]) :
                LET e == events[t][i]
                IN  /\ "vendor" \in DOMAIN e
                    /\ e["vendor"] = "openAI"
                    /\ "ingest_source" \in DOMAIN e
                    /\ e["ingest_source"] = "PythonSDK"

\* C2: every field of an event that comes from free text (message content,
\* final response text, embedding input, error message, feedback message) is
\* the source text cut to 4095 characters, unchanged when it is not longer.
C2_FreeTextTruncated ==
    \A t \in Threads :
        LET a == call[t]
            e == events[t][1]
        IN  /\ Returned(t, "build_messages_events") =>
                \A i \in 1..Len(events[t]) :
                    IsTruncationOf(events[t][i]["content"],
                                   OrEmpty(Get(a.messages[i], "content")))
            /\ Returned(t, "build_stream_completion_events") =>
                IsTruncationOf(e["response"], OrEmpty(Get(a.message, "content")))
            /\ Returned(t, "build_completion_summary") =>
                IsTruncationOf(e["response"],
                               OrEmpty(Get(a.final_message, "content")))
            /\ Returned(t, "build_embedding_event") =>
                IsTruncationOf(e["input"], a.request["input"])
            /\ Returned(t, "build_completion_summary_for_error") =>
                IsTruncationOf(e["error_message"], a.error.error.message)
            /\ Returned(t, "build_embedding_error_event") =>
                IsTruncationOf(e["error_message"], a.error.error.message)
            /\ Returned(t, "build_ai_feedback_event") =>
                IsTruncationOf(e["message"], a.message)

\* C3: in the event of build_stream_completion_events the three usage fields
\* are all defined or all undefined.
C3_UsageAllOrNone ==
    \A t \in Threads :
        Returned(t, "build_stream_completion_events") =>
            LET e == events[t][1]
            IN  /\ (e["usage.prompt_tokens"] = None)
                        <=> (e["usage.completion_tokens"] = None)
                /\ (e["usage.prompt_tokens"] = None)
                        <=> (e["usage.total_tokens"] = None)

\* C4: in build_stream_completion_events total_tokens is prompt_tokens +
\* completion_tokens whenever both are defined (0 included), and undefined
\* exactly when one of them is undefined.
C4_TotalIsSum ==
    \A t \in Threads :
        Returned(t, "build_stream_completion_events") =>
            LET e == events[t][1]
                p == e["usage.prompt_tokens"]
                c == e["usage.completion_tokens"]
                total == e["usage.total_tokens"]
            IN  /\ (p # None /\ c # None) => total = Some(p[1] + c[1])
                /\ (total = None) <=> (p = None \/ c = None)

\* C5: the id of a message event is the override when one is given, else
\* str(response_id) + "-" + index when a response id is given, else a fresh
\* unique id.
C5_MessageIdPriority ==
    \A t \in Threads :
        Returned(t, "build_messages_events") =>
            \A i \in 1..Len(events[t]) :
                events[t][i]["id"] = MessageId(call[t], i - 1, events[t][i]["id"])

\* C6: no builder writes the holder, and every message event of a call made
\* while another call runs is the one the call returns alone: its model is
\* the call's own model argument, never another request's.
C6_NoSharedWrite ==
    /\ response_model = None
    /\ conversation_id = None
    /\ \A t \in Threads :
            call[t].fn = "build_messages_events" =>
                \A i \in 1..Len(events[t]) :
                    events[t][i]["model"] = call[t].model

\* C7: _get_rate_limit_data never raises and returns exactly the six keys;
\* a numeric field is the integer of its header when the header is present
\* and all digits, else undefined; the reset fields are the raw headers.
C7_RateLimitRecord ==
    \A t \in Threads :
        call[t].fn = "_get_rate_limit_data" =>
            /\ pc[t] # "raised"
            /\ pc[t] = "done" =>
                LET h == call[t].response_headers
                    r == events[t][1]
                IN  /\ DOMAIN r = NumericNames \cup {"ratelimit_reset_tokens",
                                                      "ratelimit_reset_requests"}
                    /\ \A name \in NumericNames :
                           r[name] = IF name \in DOMAIN h /\ IsDigit(h[name])
                                     THEN Some(ToInt(h[name])) ELSE None
                    /\ r["ratelimit_reset_tokens"]
                           = Get(h, "x-ratelimit-reset-tokens")
                    /\ r["ratelimit_reset_requests"]
                           = Get(h, "x-ratelimit-reset-requests")

\* the token length of message[key], 0 when the message has no such key
FieldTokens(message, key) ==
    IF key \in DOMAIN message THEN TokenLen(message[key]) ELSE 0

\* a calc_prompt_tokens call for the legacy model with one message, no name
LegacyOneMessage(t) ==
    /\ Returned(t, "calc_prompt_tokens")
    /\ call[t].model = "gpt-3.5-turbo-0301"
    /\ Len(call[t].messages) = 1
    /\ "name" \notin DOMAIN call[t].messages[1]

\* C8 as stated: for the legacy model and one message without a name the
\* count is 3 + 4 + the token length of the content, and nothing else.
C8_ContentOnly ==
    \A t \in Threads :
        LegacyOneMessage(t) =>
            events[t][1] = Some(3 + 4 + FieldTokens(call[t].messages[1], "content"))

\* C8 amended: for the legacy model and one message without a name the count
\* is 3 + 4 + the token length of every value of the message, the role's as
\* well as the content's.
C8_EveryValue ==
    \A t \in Threads :
        LegacyOneMessage(t) =>
            events[t][1] = Some(3 + 4 + FieldTokens(call[t].messages[1], "role")
                                + FieldTokens(call[t].messages[1], "content"))

C8_Witness ==
    /\ LegacyOneMessage(1)
    /\ call[1].messages[1] = ShortMsg
    /\ events[1][1] = Some(9)

\* the sequence numbers build_messages_events gives to messages
SequenceNumbers(messages, a, start_seq_num) ==
    [i \in 1..Len(messages) |->
        CurrMessage(messages[i], i - 1,
                    [a EXCEPT !.start_seq_num = start_seq_num],
                    None, <<>>, None, NoTrace)["sequence"]]

\* one event per message, in the order of the messages
OnePerMessage(t) ==
    /\ Len(events[t]) = Len(call[t].messages)
    /\ \A i \in 1..Len(events[t]) :
           /\ events[t][i]["role"] = Get(call[t].messages[i], "role")
           /\ IsTruncationOf(events[t][i]["content"],
                             OrEmpty(Get(call[t].messages[i], "content")))

\* building messages[1..k] and then messages[k+1..] with the offset moved by k
\* numbers the events as the call on the whole list did
SplitsAgree(t) ==
    LET a == call[t]
        n == Len(a.messages)
    IN  \A k \in 0..n :
            SequenceNumbers(SubSeq(a.messages, 1, k), a, a.start_seq_num)
            \o SequenceNumbers(SubSeq(a.messages, k + 1, n), a,
                               a.start_seq_num + k)
            = [i \in 1..n |-> events[t][i]["sequence"]]

====
